---- MODULE Spec2Model ----
(***************************************************************************)
(* Model of the environment-operator planner (package plan: NextStep,      *)
(* buildPlan, buildCreatePlan, buildDestroyPlan, selectStep) and of the    *)
(* terraform steps (package step: InfraStep.Execute, DestroyStep.Execute). *)
(* One environment (NSN) is reconciled by one worker.                      *)
(***************************************************************************)
EXTENDS Integers, Sequences, FiniteSets, TLC

VARIABLES
    destroy,       \* NextStep argument: destroy flag of the environment
    ispec,         \* NextStep argument: v1.InfraSpec (revision and budget)
    cspec,         \* NextStep argument: []v1.ClusterSpec
    ws,            \* what Sourcer.Workspace answers per workspace name
    allowed,       \* Planner.AllowedStepTypes
    status,        \* v1.EnvironmentStatus.Steps: ShortName -> [Hash, State]
    currentPlans,  \* Planner.currentPlans[nsn]: NoPlan or a sequence of steps
    ret,           \* what the NextStep call that just returned handed back
    pc,            \* position of the worker inside Execute
    cur,           \* the step instance the worker executes
    ch,            \* records still to be delivered on the progress channel
    cmd,           \* process handle returned by StartApply/StartDestroy
    last,          \* Execute's local variable last
    tfr,           \* Execute's local variable tfr after Terraform.Plan
    updates,       \* usink.Update calls of the current execution, in order
    trace,         \* engine calls and channel close seen by the current execution
    result,        \* what Execute returned
    changes,       \* number of input changes so far
    restarts,      \* number of process restarts so far
    resets,        \* number of operator resets so far
    otherPlans,    \* Planner.currentPlans of the other environment's NSN
    other,         \* the other environment: its workspace and its last NextStep
    azure          \* subscription held by the client Planner.Azure refers to

vars == <<destroy, ispec, cspec, ws, allowed, status, currentPlans, ret,
          pc, cur, ch, cmd, last, tfr, updates, trace, result,
          changes, restarts, resets, otherPlans, other, azure>>

inputVars == <<destroy, ispec, cspec, ws>>
execVars == <<pc, cur, ch, cmd, last, tfr, updates, trace, result>>
countVars == <<changes, restarts, resets>>
plannerVars == <<otherPlans, other, azure>>

----------------------------------------------------------------------------
(* Bounds *)

MaxChanges == 1
MaxRestarts == 1
MaxResets == 1
MaxRecords == 2
MaxCount == 1
MaxLimit == 1

----------------------------------------------------------------------------
(* Values *)

StateInitial == ""
StateRunning == "Running"
StateReady == "Ready"
StateError == "Error"

TypeInfra == "Infra"
TypeDestroy == "Destroy"
TypeAKSPool == "AKSPool"
TypeKubeconfig == "Kubeconfig"
TypeAKSAddonPreflight == "AKSAddonPreflight"
TypeAddons == "Addons"

StepTypes == {TypeInfra, TypeDestroy, TypeAKSPool, TypeKubeconfig,
              TypeAKSAddonPreflight, TypeAddons}

ClusterNames == {"k1", "k2"}
Revs == {1, 2}

\* A nil *int32 limit (no limit set); set limits are 0..MaxLimit.
NoLimit == -1
Limits == {NoLimit} \cup (0..MaxLimit)
Budgets == [AddLimit : Limits, UpdateLimit : Limits, DeleteLimit : Limits]
NoBudget == [AddLimit |-> NoLimit, UpdateLimit |-> NoLimit, DeleteLimit |-> NoLimit]

NilStep == [Type |-> "nil", Cluster |-> "", Hash |-> <<>>, Budget |-> NoBudget]
NoPlan == [ok |-> FALSE, pl |-> <<>>]
NoRet == [called |-> FALSE, step |-> NilStep, err |-> FALSE, via |-> "",
          accepted |-> FALSE]
NoRec == [nil |-> TRUE, Errors |-> <<>>]
NoTfr == [ran |-> FALSE, PlanAdded |-> 0, PlanChanged |-> 0, PlanDeleted |-> 0,
          op |-> "", Errors |-> <<>>]

\* Error lists an engine call or a progress record may carry.
ErrorLists == {<<>>, <<"e1">>, <<"e2", "e1">>}

\* The client before any SetSubscription call.
NoSubscription == ""

\* Cluster name sequences a spec may list (names are unique within a spec).
ClusterSeqs == {<<"k1">>, <<"k2", "k1">>}

ReadyWorkspace(h) == [ok |-> TRUE, Hash |-> h, Synced |-> TRUE]

\* Answers the Sourcer can give for one workspace name.
WorkspaceValues ==
    {ReadyWorkspace("w1"), ReadyWorkspace("w2"),
     [ok |-> FALSE, Hash |-> "", Synced |-> FALSE],
     [ok |-> TRUE, Hash |-> "", Synced |-> TRUE],
     [ok |-> TRUE, Hash |-> "w1", Synced |-> FALSE]}

AllowedSets == {{}, {TypeInfra, TypeDestroy, TypeAddons}}

----------------------------------------------------------------------------
(* Planner *)

\* step.ID.ShortName(): <type>[.<clusterName>]
ShortName(st) == <<st.Type, st.Cluster>>

\* Addon values (c.Addons.Jobs, c.Addons.X) the structural hasher rejects.
Unhashable == {3}
AddonValues == Revs \cup Unhashable

\* err of hashstructure.Hash(args, nil) for the arguments of an Addons step.
hashFails(addons) == addons \in Unhashable

\* The sentinel Planner.hash returns when the hasher fails.
HashError == <<"hasherror">>

\* Planner.hash: a structural hash of the argument list, or the sentinel
\* when the hasher returned an error (err).
hash(args, err) == IF err THEN HashError ELSE <<"hash", args>>

stepMeta(clusterName, typ, h, budget) ==
    [Type |-> typ, Cluster |-> clusterName, Hash |-> h, Budget |-> budget]

stepFilter(st, state) == {n \in DOMAIN st : st[n].State = state}

planFilter(pl, allow) ==
    IF allow = {} THEN pl ELSE SelectSeq(pl, LAMBDA s : s.Type \in allow)

\* The destroy plan with the infra spec mixed into the step hash.
buildDestroyPlanSpecHash(src, is, cs) ==
    LET tfw == src[""] IN
    IF ~tfw.ok \/ tfw.Hash = ""
    THEN [ok |-> FALSE, pl |-> <<>>]
    ELSE [ok |-> TRUE,
          pl |-> <<stepMeta("", TypeDestroy, hash(<<tfw.Hash, is>>, FALSE), NoBudget)>>]

buildDestroyPlan(src, is, cs) ==
    LET tfw == src[""] IN
    IF ~tfw.ok \/ tfw.Hash = ""
    THEN [ok |-> FALSE, pl |-> <<>>]
    ELSE [ok |-> TRUE,
          pl |-> <<stepMeta("", TypeDestroy, hash(<<tfw.Hash>>, FALSE), NoBudget)>>]

\* The cluster workspace check left out.
clusterWorkspaceUnchecked(src, cl) == TRUE

\* cw, ok := src.Workspace(nsn, cl.Name); usable unless !ok || cw.Hash == "".
clusterWorkspaceReady(src, cl) == src[cl.Name].ok /\ src[cl.Name].Hash # ""

cspecInfra(cs) == [i \in 1..Len(cs) |-> cs[i].Infra]

\* The steps of one cluster with Kubeconfig emitted before AKSPool.
clusterStepsSwapped(src, is, cl, h) ==
    LET tfw == src[""]
        cw == src[cl.Name] IN
    <<stepMeta(cl.Name, TypeKubeconfig, hash(<<tfw.Hash>>, FALSE), NoBudget),
      stepMeta(cl.Name, TypeAKSPool,
               hash(<<tfw.Hash, is.ResourceGroup, cl.Infra>>, FALSE), NoBudget),
      stepMeta(cl.Name, TypeAKSAddonPreflight, h, NoBudget),
      stepMeta(cl.Name, TypeAddons,
               hash(<<cw.Hash, cl.Addons>>, hashFails(cl.Addons)), NoBudget)>>

\* The steps of one cluster with the addon inputs mixed into the AKSPool hash.
clusterStepsCoupled(src, is, cl, h) ==
    LET tfw == src[""]
        cw == src[cl.Name] IN
    <<stepMeta(cl.Name, TypeAKSPool,
               hash(<<tfw.Hash, is.ResourceGroup, cl.Infra, cl.Addons>>, FALSE),
               NoBudget),
      stepMeta(cl.Name, TypeKubeconfig, hash(<<tfw.Hash>>, FALSE), NoBudget),
      stepMeta(cl.Name, TypeAKSAddonPreflight, h, NoBudget),
      stepMeta(cl.Name, TypeAddons,
               hash(<<cw.Hash, cl.Addons>>, hashFails(cl.Addons)), NoBudget)>>

clusterSteps(src, is, cl, h) ==
    LET tfw == src[""]
        cw == src[cl.Name] IN
    <<stepMeta(cl.Name, TypeAKSPool,
               hash(<<tfw.Hash, is.ResourceGroup, cl.Infra>>, FALSE), NoBudget),
      stepMeta(cl.Name, TypeKubeconfig, hash(<<tfw.Hash>>, FALSE), NoBudget),
      stepMeta(cl.Name, TypeAKSAddonPreflight, h, NoBudget),
      stepMeta(cl.Name, TypeAddons,
               hash(<<cw.Hash, cl.Addons>>, hashFails(cl.Addons)), NoBudget)>>

RECURSIVE clusterPlan(_, _, _, _, _)

clusterPlan(src, is, cs, h, i) ==
    IF i > Len(cs) THEN <<>>
    ELSE clusterSteps(src, is, cs[i], h) \o clusterPlan(src, is, cs, h, i + 1)

buildCreatePlan(src, is, cs) ==
    LET tfw == src[""]
        h == hash(<<tfw.Hash, is, cspecInfra(cs)>>, FALSE) IN
    IF ~tfw.ok \/ ~tfw.Synced
    THEN [ok |-> FALSE, pl |-> <<>>]
    ELSE IF \E i \in 1..Len(cs) : ~clusterWorkspaceReady(src, cs[i])
    THEN [ok |-> FALSE, pl |-> <<>>]
    ELSE [ok |-> TRUE,
          pl |-> <<stepMeta("", TypeInfra, h, is.Budget)>>
                 \o clusterPlan(src, is, cs, h, 1)]

buildPlan(src, d, is, cs, allow) ==
    LET b == IF d THEN buildDestroyPlan(src, is, cs)
             ELSE buildCreatePlan(src, is, cs) IN
    IF ~b.ok THEN [ok |-> FALSE, pl |-> <<>>]
    ELSE [ok |-> TRUE, pl |-> planFilter(b.pl, allow)]

\* Planner.currentPlanStep: the step of the stored plan with that short name.
currentPlanStep(cp, name) ==
    IF ~cp.ok \/ ~\E i \in 1..Len(cp.pl) : ShortName(cp.pl[i]) = name
    THEN NilStep
    ELSE cp.pl[CHOOSE i \in 1..Len(cp.pl) :
                  /\ ShortName(cp.pl[i]) = name
                  /\ \A j \in 1..(i - 1) : ShortName(cp.pl[j]) # name]

RECURSIVE selectSkipsUnseen(_, _, _)

\* selectStep passing over a step that has no status entry yet.
selectSkipsUnseen(pl, st, i) ==
    IF i > Len(pl) THEN NilStep
    ELSE IF ShortName(pl[i]) \notin DOMAIN st
    THEN IF i < Len(pl) THEN selectSkipsUnseen(pl, st, i + 1) ELSE pl[i]
    ELSE IF st[ShortName(pl[i])].Hash = pl[i].Hash THEN selectSkipsUnseen(pl, st, i + 1)
    ELSE IF st[ShortName(pl[i])].State = StateError THEN NilStep
    ELSE pl[i]

\* selectStep without the hash comparison: a step with a status entry is
\* returned whether or not its hash changed.
selectIgnoresHash(pl, st, i) ==
    IF i > Len(pl) THEN NilStep
    ELSE IF ShortName(pl[i]) \notin DOMAIN st THEN pl[i]
    ELSE IF st[ShortName(pl[i])].State = StateError THEN NilStep
    ELSE pl[i]

RECURSIVE selectRerunsReady(_, _, _)

\* selectStep skipping an unchanged step only while it is not Ready.
selectRerunsReady(pl, st, i) ==
    IF i > Len(pl) THEN NilStep
    ELSE IF ShortName(pl[i]) \notin DOMAIN st THEN pl[i]
    ELSE IF /\ st[ShortName(pl[i])].Hash = pl[i].Hash
            /\ st[ShortName(pl[i])].State # StateReady
    THEN selectRerunsReady(pl, st, i + 1)
    ELSE IF st[ShortName(pl[i])].State = StateError THEN NilStep
    ELSE pl[i]

RECURSIVE selectFrom(_, _, _)

selectFrom(pl, st, i) ==
    IF i > Len(pl) THEN NilStep
    ELSE IF ShortName(pl[i]) \notin DOMAIN st THEN pl[i]
    ELSE IF st[ShortName(pl[i])].Hash = pl[i].Hash THEN selectFrom(pl, st, i + 1)
    ELSE IF st[ShortName(pl[i])].State = StateError THEN NilStep
    ELSE pl[i]

selectStep(cp, st) ==
    IF ~cp.ok THEN [step |-> NilStep, err |-> TRUE]
    ELSE [step |-> selectFrom(cp.pl, st, 1), err |-> FALSE]

\* The error gate left out: an errored status does not stop NextStep.
errorGateOff(st) == FALSE

\* len(stepFilter(status, v1.StateError)) > 0
errorGate(st) == stepFilter(st, StateError) # {}

\* A failed rebuild dropping the plan stored for the NSN.
droppedPlan(cp) == NoPlan

\* buildPlan returning false before p.currentPlans[nsn] is assigned.
keptPlan(cp) == cp

\* The outcome of one NextStep call: returned step, returned error, the plan
\* stored afterwards and the branch that returned.  vaultOK says whether
\* vaultInfraValues succeeded, r is running[0] (map iteration order).
nextStep(cp, st, src, d, is, cs, allow, vaultOK, r) ==
    LET running == stepFilter(st, StateRunning)
        fast == IF running # {} THEN currentPlanStep(cp, r) ELSE NilStep
        b == buildPlan(src, d, is, cs, allow)
        again == IF running # {} THEN currentPlanStep(b, r) ELSE NilStep
        sel == selectStep(b, st) IN
    IF errorGate(st)
    THEN [step |-> NilStep, err |-> FALSE, plan |-> cp, via |-> "error"]
    ELSE IF fast # NilStep
    THEN [step |-> fast, err |-> FALSE, plan |-> cp, via |-> "running"]
    ELSE IF ~vaultOK
    THEN [step |-> NilStep, err |-> TRUE, plan |-> cp, via |-> "vault"]
    ELSE IF ~b.ok
    THEN [step |-> NilStep, err |-> FALSE, plan |-> keptPlan(cp), via |-> "notready"]
    ELSE IF again # NilStep
    THEN [step |-> again, err |-> FALSE, plan |-> b, via |-> "rebuilt"]
    ELSE [step |-> sel.step, err |-> sel.err, plan |-> b, via |-> "select"]

\* buildCreatePlan's effect on the client: az := p.Azure copies the interface
\* value, so az.SetSubscription sets the subscription of the one client every
\* AKSPool step refers to; it is called for each cluster whose workspace
\* passed the check, also when a later cluster fails it.
createPlanSubscription(az, src, is, cs) ==
    IF /\ src[""].ok /\ src[""].Synced
       /\ Len(cs) > 0
       /\ clusterWorkspaceReady(src, cs[1])
    THEN is.Subscription
    ELSE az

\* The subscription of the client after a NextStep call that returned by
\* branch via.
subscriptionAfter(az, via, src, d, is, cs) ==
    IF via \in {"notready", "rebuilt", "select"} /\ ~d
    THEN createPlanSubscription(az, src, is, cs)
    ELSE az

----------------------------------------------------------------------------
(* Reconcile: the controller calls NextStep and hands the step to the worker *)

\* The other environment made no NextStep call in this step.
OtherIdle == other' = [other EXCEPT !.via = ""] /\ UNCHANGED otherPlans

Running0 ==
    IF stepFilter(status, StateRunning) = {} THEN {<<"", "">>}
    ELSE stepFilter(status, StateRunning)

ClearExec ==
    /\ cur' = NilStep
    /\ ch' = <<>>
    /\ cmd' = "nil"
    /\ last' = NoRec
    /\ tfr' = NoTfr
    /\ updates' = <<>>
    /\ trace' = <<>>
    /\ result' = "none"

\* One reconcile: NextStep decides; an idle worker accepts the returned step.
Reconcile ==
    /\ pc # "panic"
    /\ \E vaultOK \in BOOLEAN, r \in Running0 :
         LET n == nextStep(currentPlans, status, ws, destroy, ispec, cspec,
                           allowed, vaultOK, r)
             accept == pc = "idle" /\ n.step # NilStep IN
         /\ currentPlans' = n.plan
         /\ azure' = subscriptionAfter(azure, n.via, ws, destroy, ispec, cspec)
         /\ ret' = [called |-> TRUE, step |-> n.step, err |-> n.err,
                    via |-> n.via, accepted |-> accept]
         /\ IF accept
            THEN /\ pc' = "begin"
                 /\ cur' = n.step
                 /\ UNCHANGED <<ch, cmd, last, tfr, updates, trace, result>>
            ELSE UNCHANGED execVars
    /\ OtherIdle
    /\ UNCHANGED <<inputVars, allowed, status, countVars>>

----------------------------------------------------------------------------
(* Step execution *)

\* usink.Update(st): the controller writes the step's meta into status.
Update(state, msg) ==
    /\ updates' = Append(updates, [State |-> state, Msg |-> msg])
    /\ status' = [n \in DOMAIN status \cup {ShortName(cur)} |->
                     IF n = ShortName(cur)
                     THEN [Hash |-> cur.Hash, State |-> state]
                     ELSE status[n]]

\* A terminal update followed by return.
Finish(state, msg) ==
    /\ Update(state, msg)
    /\ result' = IF state = StateReady THEN "true" ELSE "false"
    /\ pc' = "done"

ExecFrame ==
    /\ UNCHANGED <<inputVars, allowed, currentPlans, countVars, azure>>
    /\ OtherIdle
    /\ ret' = NoRet

\* Execute entry: State = Running, Msg = "terraform init", Update.
ExecBegin ==
    /\ pc = "begin"
    /\ Update(StateRunning, <<"terraform init">>)
    /\ pc' = IF cur.Type \in {TypeInfra, TypeDestroy} THEN "init" ELSE "other"
    /\ UNCHANGED <<cur, ch, cmd, last, tfr, trace, result>>
    /\ ExecFrame

\* The last error of the list in place of the first.
lastErr(errs) == errs[Len(errs)]

\* tfr.Errors[0]: first error only.
firstErr(errs) == errs[1]

\* InfraStep.Execute: template expansion, cloud login, terraform init.
\* errs: the error lists Terraform.Init may return.
InfraInit(errs) ==
    /\ pc = "init" /\ cur.Type = TypeInfra
    /\ \E tmplOK, loginOK \in BOOLEAN, e \in errs :
         IF ~tmplOK
         THEN Finish(StateError, <<"expand">>) /\ UNCHANGED <<trace, tfr>>
         ELSE IF ~loginOK
         THEN Finish(StateError, <<"login">>) /\ UNCHANGED <<trace, tfr>>
         ELSE /\ trace' = Append(trace, "Init")
              /\ tfr' = [NoTfr EXCEPT !.op = "Init", !.Errors = e]
              /\ IF Len(e) > 0
                 THEN Finish(StateError, <<"terraform init ", firstErr(e)>>)
                 ELSE /\ Update(StateRunning, <<"terraform plan">>)
                      /\ pc' = "plan"
                      /\ UNCHANGED result
    /\ UNCHANGED <<cur, ch, cmd, last>>
    /\ ExecFrame

\* The delete limit enforced one object too late.
exceedsDeleteOffByOne(b, t) == b.DeleteLimit # NoLimit /\ t.PlanDeleted > b.DeleteLimit + 1

\* The add limit never enforced.
exceedsAddNever(b, t) == FALSE

exceedsAdd(b, t) == b.AddLimit # NoLimit /\ t.PlanAdded > b.AddLimit
exceedsUpdate(b, t) == b.UpdateLimit # NoLimit /\ t.PlanChanged > b.UpdateLimit
exceedsDelete(b, t) == b.DeleteLimit # NoLimit /\ t.PlanDeleted > b.DeleteLimit

\* The nothing-to-do shortcut left out.
nothingToDoNever(t) == FALSE

\* st.Added == 0 && st.Changed == 0 && st.Deleted == 0
nothingToDo(t) == t.PlanAdded = 0 /\ t.PlanChanged = 0 /\ t.PlanDeleted = 0

\* InfraStep.Execute: terraform plan, nothing-to-do shortcut, budget check.
\* counts: the (added, changed, deleted) triples terraform plan may report;
\* errs: the error lists Terraform.Plan may return.
InfraPlan(counts, errs) ==
    /\ pc = "plan" /\ cur.Type = TypeInfra
    /\ trace' = Append(trace, "Plan")
    /\ \E e \in errs, acd \in counts :
         LET a == acd[1]
             c == acd[2]
             d == acd[3]
             t == [ran |-> TRUE, PlanAdded |-> a, PlanChanged |-> c,
                   PlanDeleted |-> d, op |-> "Plan", Errors |-> e]
             b == cur.Budget IN
         IF Len(e) > 0
         THEN /\ tfr' = [NoTfr EXCEPT !.op = "Plan", !.Errors = e]
              /\ Finish(StateError, <<"terraform plan ", firstErr(e)>>)
         ELSE /\ tfr' = t
              /\ IF nothingToDo(t)
                 THEN Finish(StateReady, <<"terraform plan: nothing to do">>)
                 ELSE IF exceedsAdd(b, t)
                 THEN Finish(StateError,
                             <<"plan added", a, "exceeds addLimit", b.AddLimit>>)
                 ELSE IF exceedsUpdate(b, t)
                 THEN Finish(StateError,
                             <<"plan changed", c, "exceeds updateLimit", b.UpdateLimit>>)
                 ELSE IF exceedsDelete(b, t)
                 THEN Finish(StateError,
                             <<"plan deleted", d, "exceeds deleteLimit", b.DeleteLimit>>)
                 ELSE /\ Update(StateRunning, <<"terraform apply", <<a, c, d>>>>)
                      /\ pc' = "apply"
                      /\ UNCHANGED result
    /\ UNCHANGED <<cur, ch, cmd, last>>
    /\ ExecFrame

\* Progress records a started apply/destroy may deliver before closing.
Records == [Errors : ErrorLists]
RecordSeqs == UNION {[1..n -> Records] : n \in 0..MaxRecords}

\* Plan counts terraform plan may report.
PlanCounts == (0..MaxCount) \X (0..MaxCount) \X (0..MaxCount)

\* InfraStep.Execute: Terraform.StartApply.
\* seqs: the record sequences the progress channel may deliver.
InfraStartApply(seqs) ==
    /\ pc = "apply" /\ cur.Type = TypeInfra
    /\ trace' = Append(trace, "StartApply")
    /\ \E startOK \in BOOLEAN, c \in {"nil", "real"}, rs \in seqs :
         IF ~startOK
         THEN Finish(StateError, <<"start terraform apply:", "err">>)
              /\ UNCHANGED <<ch, cmd>>
         ELSE /\ ch' = rs
              /\ cmd' = c
              /\ pc' = "drain"
              /\ UNCHANGED <<status, updates, result>>
    /\ UNCHANGED <<cur, last, tfr>>
    /\ ExecFrame

\* DestroyStep.Execute: template expansion, terraform init.
\* errs: the error lists Terraform.Init may return.
DestroyInit(errs) ==
    /\ pc = "init" /\ cur.Type = TypeDestroy
    /\ \E tmplOK \in BOOLEAN, e \in errs :
         IF ~tmplOK
         THEN Finish(StateError, <<"expand">>) /\ UNCHANGED <<trace, tfr>>
         ELSE /\ trace' = Append(trace, "Init")
              /\ tfr' = [NoTfr EXCEPT !.op = "Init", !.Errors = e]
              /\ IF Len(e) > 0
                 THEN Finish(StateError, <<"terraform init ", firstErr(e)>>)
                 ELSE /\ Update(StateRunning, <<"terraform destroy">>)
                      /\ pc' = "destroy"
                      /\ UNCHANGED result
    /\ UNCHANGED <<cur, ch, cmd, last>>
    /\ ExecFrame

\* DestroyStep.Execute: Terraform.StartDestroy.
DestroyStart(seqs) ==
    /\ pc = "destroy" /\ cur.Type = TypeDestroy
    /\ trace' = Append(trace, "StartDestroy")
    /\ \E startOK \in BOOLEAN, c \in {"nil", "real"}, rs \in seqs :
         IF ~startOK
         THEN Finish(StateError, <<"start terraform destroy:", "err">>)
              /\ UNCHANGED <<ch, cmd>>
         ELSE /\ Update(StateRunning, <<"terraform destroy">>)
              /\ ch' = rs
              /\ cmd' = c
              /\ pc' = "drain"
              /\ UNCHANGED result
    /\ UNCHANGED <<cur, last, tfr>>
    /\ ExecFrame

\* for r := range ch { ...; last = &r }
Receive ==
    /\ pc = "drain" /\ ch # <<>>
    /\ last' = [nil |-> FALSE, Errors |-> Head(ch).Errors]
    /\ ch' = Tail(ch)
    /\ trace' = Append(trace, IF Len(Head(ch).Errors) > 0 THEN "RecordErr"
                              ELSE "Record")
    /\ UNCHANGED <<pc, cur, cmd, tfr, updates, result, status>>
    /\ ExecFrame

Verb(typ) == IF typ = TypeInfra THEN "apply" ELSE "destroy"

RECURSIVE Join(_)

\* strings.Join(errs, ", "), as the sequence of its parts.
Join(errs) ==
    IF Len(errs) = 0 THEN <<>>
    ELSE IF Len(errs) = 1 THEN <<errs[1]>>
    ELSE <<errs[1], ", ">> \o Join(Tail(errs))

\* The range loop left while a record is still to be delivered.
drainedEarly(c) == Len(c) <= 1

\* for r := range ch ends when the channel is closed and empty.
drained(c) == c = <<>>

\* An error of cmd.Wait failing the step.
failedOrWaitErr(l, waitErr) == Len(l.Errors) > 0 \/ waitErr

\* len(last.Errors) > 0; the error of cmd.Wait is logged only.
failed(l, waitErr) == Len(l.Errors) > 0

\* After the channel closed: cmd.Wait, writeText(last.Text), terminal update.
\* last.Text is evaluated before the nil check: a nil last panics.
Drained ==
    /\ pc = "drain" /\ drained(ch)
    /\ \E waitErr \in BOOLEAN :
         /\ trace' = IF cmd = "nil" THEN Append(trace, "closed")
                     ELSE IF waitErr THEN trace \o <<"closed", "Wait", "WaitErr">>
                     ELSE trace \o <<"closed", "Wait">>
         /\ IF last.nil
            THEN /\ pc' = "panic"
                 /\ result' = "panic"
                 /\ UNCHANGED <<status, updates>>
            ELSE IF failed(last, cmd # "nil" /\ waitErr)
            THEN Finish(StateError, Join(last.Errors))
            ELSE Finish(StateReady, <<"terraform", Verb(cur.Type), "errors=0">>)
    /\ UNCHANGED <<cur, ch, cmd, last, tfr>>
    /\ ExecFrame

\* Execute of AKSPool, Kubeconfig, AKSAddonPreflight and Addons steps:
\* Running at entry, then a terminal Ready or Error.
OtherExecute ==
    /\ pc = "other"
    /\ \E ok \in BOOLEAN :
         Finish(IF ok THEN StateReady ELSE StateError, <<"other">>)
    /\ UNCHANGED <<cur, ch, cmd, last, tfr, trace>>
    /\ ExecFrame

\* Execute has returned; the worker is free again.
ExecReturn ==
    /\ pc = "done"
    /\ pc' = "idle"
    /\ ClearExec
    /\ ret' = NoRet
    /\ OtherIdle
    /\ UNCHANGED <<inputVars, allowed, status, currentPlans, countVars, azure>>

----------------------------------------------------------------------------
(* Environment *)

\* The operator process restarts: in-memory plans and the execution are lost.
Restart ==
    /\ restarts < MaxRestarts
    /\ restarts' = restarts + 1
    /\ currentPlans' = NoPlan
    /\ pc' = "idle"
    /\ ClearExec
    /\ ret' = NoRet
    /\ otherPlans' = NoPlan
    /\ azure' = NoSubscription
    /\ other' = [other EXCEPT !.via = ""]
    /\ UNCHANGED <<inputVars, allowed, status, changes, resets>>

\* An operator resets a step in Error by removing its status entry.
Reset ==
    /\ resets < MaxResets
    /\ pc \in {"idle", "panic"}
    /\ \E n \in stepFilter(status, StateError) :
         status' = [m \in DOMAIN status \ {n} |-> status[m]]
    /\ resets' = resets + 1
    /\ ret' = NoRet
    /\ OtherIdle
    /\ UNCHANGED <<inputVars, allowed, currentPlans, execVars, changes, restarts, azure>>

Cluster(name) == [Name |-> name, Infra |-> 1, Addons |-> 1]
ClusterSpecs(names) == [i \in 1..Len(names) |-> Cluster(names[i])]

DriftFrame ==
    /\ changes < MaxChanges
    /\ changes' = changes + 1
    /\ ret' = NoRet
    /\ OtherIdle
    /\ UNCHANGED <<allowed, status, currentPlans, execVars, restarts, resets, azure>>

\* The destroy flag of the environment is flipped.
SetDestroy ==
    /\ DriftFrame
    /\ destroy' = ~destroy
    /\ UNCHANGED <<ispec, cspec, ws>>

\* The infra spec is edited.
SetInfraSpec ==
    /\ DriftFrame
    /\ \E r \in Revs \ {ispec.Rev} : ispec' = [ispec EXCEPT !.Rev = r]
    /\ UNCHANGED <<destroy, cspec, ws>>

\* The cluster list is edited: clusters added or removed, or one cluster's
\* infra version or addon values changed.
SetClusterSpec ==
    /\ DriftFrame
    /\ \/ \E names \in ClusterSeqs :
            /\ ClusterSpecs(names) # cspec
            /\ cspec' = ClusterSpecs(names)
       \/ \E i \in 1..Len(cspec) : \E r \in Revs \ {cspec[i].Infra} :
            cspec' = [cspec EXCEPT ![i].Infra = r]
       \/ \E i \in 1..Len(cspec) : \E r \in AddonValues \ {cspec[i].Addons} :
            cspec' = [cspec EXCEPT ![i].Addons = r]
    /\ UNCHANGED <<destroy, ispec, ws>>

\* The Sourcer's answer for one workspace changes.
SetWorkspace ==
    /\ DriftFrame
    /\ \E n \in DOMAIN ws : \E w \in WorkspaceValues \ {ws[n]} :
         ws' = [ws EXCEPT ![n] = w]
    /\ UNCHANGED <<destroy, ispec, cspec>>

----------------------------------------------------------------------------
(* Specifications *)

MainBudget == [AddLimit |-> NoLimit, UpdateLimit |-> NoLimit, DeleteLimit |-> 0]

InitExec ==
    /\ pc = "idle"
    /\ cur = NilStep
    /\ ch = <<>>
    /\ cmd = "nil"
    /\ last = NoRec
    /\ tfr = NoTfr
    /\ updates = <<>>
    /\ trace = <<>>
    /\ result = "none"

\* A planner that built no plan yet; the other environment's workspace ready.
InitPlanner ==
    /\ otherPlans = NoPlan
    /\ other = [ok |-> TRUE, via |-> ""]
    /\ azure = NoSubscription

\* A fresh environment: empty status, no plan in memory, workspaces ready.
Init ==
    /\ destroy \in BOOLEAN
    /\ ispec = [Rev |-> 1, ResourceGroup |-> "rg", Budget |-> MainBudget,
                Subscription |-> "subA"]
    /\ cspec \in {ClusterSpecs(names) : names \in ClusterSeqs}
    /\ ws = [n \in {""} \cup ClusterNames |-> ReadyWorkspace("w1")]
    /\ allowed \in AllowedSets
    /\ status = <<>>
    /\ currentPlans = NoPlan
    /\ ret = NoRet
    /\ InitExec
    /\ InitPlanner
    /\ changes = 0
    /\ restarts = 0
    /\ resets = 0

Execute(counts, seqs, errs) ==
    \/ ExecBegin
    \/ InfraInit(errs)
    \/ InfraPlan(counts, errs)
    \/ InfraStartApply(seqs)
    \/ DestroyInit(errs)
    \/ DestroyStart(seqs)
    \/ Receive
    \/ Drained
    \/ OtherExecute
    \/ ExecReturn

\* The planner sees an execution only through the status it leaves, so the
\* reconcile loop draws one terraform answer per outcome: an empty plan, a
\* plan over MainBudget, a plan within it; no record, a last record without
\* errors, a last record with errors.
MainCounts == {<<0, 0, 0>>, <<0, 0, 1>>, <<1, 0, 0>>}
MainRecordSeqs == {<<>>, <<[Errors |-> <<>>]>>, <<[Errors |-> <<"e1">>]>>}
MainErrors == {<<>>, <<"e1">>}

Next ==
    \/ Reconcile
    \/ Execute(MainCounts, MainRecordSeqs, MainErrors)
    \/ Restart
    \/ Reset
    \/ SetDestroy
    \/ SetInfraSpec
    \/ SetClusterSpec
    \/ SetWorkspace

Spec == Init /\ [][Next]_vars

\* Step execution under every budget: one cluster, inputs never change.
InitExecute ==
    /\ destroy \in BOOLEAN
    /\ \E b \in Budgets : ispec = [Rev |-> 1, ResourceGroup |-> "rg", Budget |-> b,
                                   Subscription |-> "subA"]
    /\ cspec = ClusterSpecs(<<"k1">>)
    /\ ws = [n \in {""} \cup ClusterNames |-> ReadyWorkspace("w1")]
    /\ allowed = {}
    /\ status = <<>>
    /\ currentPlans = NoPlan
    /\ ret = NoRet
    /\ InitExec
    /\ InitPlanner
    /\ changes = 0
    /\ restarts = 0
    /\ resets = 0

NextExecute ==
    \/ Reconcile
    \/ Execute(PlanCounts, RecordSeqs, ErrorLists)

SpecExecute == InitExecute /\ [][NextExecute]_vars

\* The other environment B reconciled by the same Planner: its own
\* subscription and resource group, one cluster, no step executed yet.
otherInfraSpec ==
    [Rev |-> 1, ResourceGroup |-> "rgB", Budget |-> NoBudget, Subscription |-> "subB"]

otherClusterSpec == ClusterSpecs(<<"k1">>)

otherWorkspaces(ok) ==
    [n \in {""} \cup ClusterNames |->
        IF ok THEN ReadyWorkspace("w1")
        ELSE [ok |-> FALSE, Hash |-> "", Synced |-> FALSE]]

\* One reconcile of the other environment: NextStep with its NSN.
ReconcileOther ==
    /\ pc # "panic"
    /\ \E vaultOK \in BOOLEAN :
         LET src == otherWorkspaces(other.ok)
             n == nextStep(otherPlans, <<>>, src, FALSE, otherInfraSpec,
                           otherClusterSpec, allowed, vaultOK, <<"", "">>) IN
         /\ otherPlans' = n.plan
         /\ other' = [other EXCEPT !.via = n.via]
         /\ azure' = subscriptionAfter(azure, n.via, src, FALSE, otherInfraSpec,
                                       otherClusterSpec)
    /\ ret' = NoRet
    /\ UNCHANGED <<inputVars, allowed, status, currentPlans, execVars, countVars>>

\* The Sourcer's answer for the other environment's workspaces changes.
SetOtherWorkspace ==
    /\ other' = [ok |-> ~other.ok, via |-> ""]
    /\ ret' = NoRet
    /\ UNCHANGED <<inputVars, allowed, status, currentPlans, execVars, countVars,
                   otherPlans, azure>>

\* Two environments on one Planner: one cluster each, no allow-list.
InitEnvs ==
    /\ destroy = FALSE
    /\ ispec = [Rev |-> 1, ResourceGroup |-> "rg", Budget |-> MainBudget,
                Subscription |-> "subA"]
    /\ cspec = ClusterSpecs(<<"k1">>)
    /\ ws = [n \in {""} \cup ClusterNames |-> ReadyWorkspace("w1")]
    /\ allowed = {}
    /\ status = <<>>
    /\ currentPlans = NoPlan
    /\ ret = NoRet
    /\ InitExec
    /\ InitPlanner
    /\ changes = 0
    /\ restarts = 0
    /\ resets = 0

NextEnvs ==
    \/ Reconcile
    \/ Execute(MainCounts, MainRecordSeqs, MainErrors)
    \/ SetDestroy
    \/ SetWorkspace
    \/ ReconcileOther
    \/ SetOtherWorkspace

SpecEnvs == InitEnvs /\ [][NextEnvs]_vars

----------------------------------------------------------------------------
(* Properties of NextStep *)

HasState(state) == \E n \in DOMAIN status : status[n].State = state

\* Position of the step with short name n in the stored plan, 0 if absent.
PlanIndex(n) ==
    IF \E i \in 1..Len(currentPlans.pl) : ShortName(currentPlans.pl[i]) = n
    THEN CHOOSE i \in 1..Len(currentPlans.pl) : ShortName(currentPlans.pl[i]) = n
    ELSE 0

Unseen(i) == ShortName(currentPlans.pl[i]) \notin DOMAIN status

ReturnedRunning ==
    /\ ShortName(ret.step) \in DOMAIN status
    /\ status[ShortName(ret.step)].State = "Running"

\* C1: while some status entry is in Error, every NextStep call returns
\* (nil, nil), no step is accepted for execution and no status entry is
\* written; entries only disappear through an operator reset.
C1_ErrorGate ==
    /\ [](ret.called /\ HasState("Error")
            => ret.step = NilStep /\ ~ret.err /\ ~ret.accepted)
    /\ [][HasState("Error") =>
            /\ \A n \in DOMAIN status' : n \in DOMAIN status /\ status'[n] = status[n]
            /\ (status' # status => resets' = resets + 1)
            /\ pc' \in {pc, "idle"}]_vars

C1_Witness ==
    /\ ret.called /\ HasState("Error") /\ ret.step = NilStep
    /\ changes > 0
    /\ currentPlans.ok
    /\ \E i \in 1..Len(currentPlans.pl) : Unseen(i)

\* C2 as claimed: a step that comes after a plan step without status entry
\* is never returned.
C2_FirstRunOrdering ==
    ret.called /\ ret.step # NilStep /\ currentPlans.ok =>
        \A i \in 1..Len(currentPlans.pl) :
            Unseen(i) => PlanIndex(ShortName(ret.step)) <= i

\* C2 amended: a step that comes after a plan step without status entry is
\* returned only when it is the step recorded as Running in status.
C2_FirstRunOrderingUnlessRunning ==
    ret.called /\ ret.step # NilStep /\ currentPlans.ok /\ ~ReturnedRunning =>
        \A i \in 1..Len(currentPlans.pl) :
            Unseen(i) => PlanIndex(ShortName(ret.step)) <= i

C2_Witness ==
    /\ ret.called /\ ret.step # NilStep /\ currentPlans.ok
    /\ ~HasState("Running")
    /\ Unseen(PlanIndex(ShortName(ret.step)))
    /\ PlanIndex(ShortName(ret.step)) > 1
    /\ PlanIndex(ShortName(ret.step)) < Len(currentPlans.pl)
    /\ Unseen(Len(currentPlans.pl))

UpToDate(st) ==
    /\ ShortName(st) \in DOMAIN status
    /\ status[ShortName(st)].Hash = st.Hash

\* C3 as claimed: a plan step whose status entry carries the step's hash is
\* never returned, whatever the state of the entry.
C3_UpToDateSkip ==
    ret.called /\ currentPlans.ok =>
        \A i \in 1..Len(currentPlans.pl) :
            UpToDate(currentPlans.pl[i]) => ret.step # currentPlans.pl[i]

\* C3 amended: a plan step whose status entry carries the step's hash and is
\* not in state Running is never returned.
C3_UpToDateSkipUnlessRunning ==
    ret.called /\ currentPlans.ok =>
        \A i \in 1..Len(currentPlans.pl) :
            /\ UpToDate(currentPlans.pl[i])
            /\ status[ShortName(currentPlans.pl[i])].State # "Running"
            => ret.step # currentPlans.pl[i]

C3_Witness ==
    /\ ret.called /\ currentPlans.ok /\ ret.step # NilStep
    /\ ret.step.Type = "Addons"
    /\ changes > 0
    /\ \E i \in 1..Len(currentPlans.pl) :
         /\ UpToDate(currentPlans.pl[i])
         /\ status[ShortName(currentPlans.pl[i])].State = "Ready"
         /\ i < PlanIndex(ShortName(ret.step))
    /\ ShortName(ret.step) \in DOMAIN status
    /\ status[ShortName(ret.step)].Hash # ret.step.Hash

\* C4: status.Steps holds at most one entry with State == Running.
C4_AtMostOneRunning ==
    Cardinality({n \in DOMAIN status : status[n].State = "Running"}) <= 1

ClusterStepOrder == <<"AKSPool", "Kubeconfig", "AKSAddonPreflight", "Addons">>

\* Short names in the order a fresh environment is expected to run them.
ExpectedOrder ==
    [j \in 1..(1 + 4 * Len(cspec)) |->
        IF j = 1 THEN <<"Infra", "">>
        ELSE <<ClusterStepOrder[((j - 2) % 4) + 1], cspec[((j - 2) \div 4) + 1].Name>>]

\* Nothing changed since the environment was created and no step failed.
FreshRun ==
    /\ ~destroy
    /\ changes = 0 /\ restarts = 0 /\ resets = 0
    /\ ~HasState("Error")
    /\ result # "panic"

InPlanOrder ==
    LET n == Cardinality(DOMAIN status) IN
    /\ n <= Len(ExpectedOrder)
    /\ DOMAIN status = {ExpectedOrder[j] : j \in 1..n}
    /\ ret.accepted => /\ n < Len(ExpectedOrder)
                       /\ ShortName(ret.step) = ExpectedOrder[n + 1]
    /\ ret.called /\ ~ret.accepted /\ ~ret.err /\ pc = "idle"
           => ret.step = NilStep /\ n = Len(ExpectedOrder)

\* C9 as claimed: a fresh environment whose steps all end Ready is handed
\* Infra, then AKSPool, Kubeconfig, AKSAddonPreflight, Addons per cluster in
\* spec order, each once, and then nothing.
C9_FreshConvergence == FreshRun => InPlanOrder

\* C9 amended: the same, when no step-type allow-list is configured.
C9_FreshConvergenceUnfiltered == FreshRun /\ allowed = {} => InPlanOrder

C9_Witness ==
    /\ FreshRun /\ allowed = {} /\ Len(cspec) = 2
    /\ ret.called /\ ~ret.err /\ ret.step = NilStep /\ pc = "idle"
    /\ Cardinality(DOMAIN status) = 9
    /\ \A n \in DOMAIN status : status[n].State = "Ready"

\* A workspace the spec refers to is reported as not available.
InfraWorkspaceMissing == ~ws[""].ok
ClusterWorkspaceMissing == \E i \in 1..Len(cspec) : ~ws[cspec[i].Name].ok

\* C10 as claimed: with the infrastructure workspace or any cluster
\* workspace not available, NextStep returns (nil, nil) and nothing is
\* handed out for execution (stated for calls whose secret resolution did
\* not fail).
C10_PrerequisiteMissing ==
    ret.called /\ ret.via # "vault"
    /\ (InfraWorkspaceMissing \/ ClusterWorkspaceMissing) =>
        ret.step = NilStep /\ ~ret.err /\ ~ret.accepted

\* C10 amended: with the infrastructure workspace not available, or with
\* destroy false and a cluster workspace not available, NextStep returns no
\* step other than the stored plan's step of a Running status entry.
C10_PrerequisiteMissingNoNewStep ==
    ret.called /\ (InfraWorkspaceMissing \/ (~destroy /\ ClusterWorkspaceMissing)) =>
        \/ ret.step = NilStep
        \/ /\ ReturnedRunning
           /\ ~ret.err
           /\ PlanIndex(ShortName(ret.step)) > 0

C10_Witness ==
    /\ ret.called /\ ~destroy /\ ~InfraWorkspaceMissing /\ ClusterWorkspaceMissing
    /\ ret.step = NilStep /\ ~ret.err
    /\ ~HasState("Error") /\ ~HasState("Running")
    /\ status # <<>>

\* Hash non-empty and Synced true: the workspace is ready.
WorkspaceReady(w) == w.ok /\ w.Hash # "" /\ w.Synced

\* The NextStep call that just returned built a plan and stored it.
PlanBuilt == ret.called /\ ret.via \in {"rebuilt", "select"}

\* C11: a plan is built (and a step can be returned from it) only if every
\* workspace the plan shape consults has a non-empty Hash and Synced true:
\* the infrastructure workspace, and every cluster workspace for a create plan.
C11_WorkspaceReadiness ==
    PlanBuilt =>
        /\ WorkspaceReady(ws[""])
        /\ (~destroy => \A i \in 1..Len(cspec) : WorkspaceReady(ws[cspec[i].Name]))

\* The NextStep call that just returned went through buildPlan.
BuildPlanCalled == ret.called /\ ret.via \in {"notready", "rebuilt", "select"}

\* C12: with destroy true, the infrastructure workspace ready and no
\* allow-list, the plan stored by a rebuild is exactly one Destroy step with
\* Hash = hash(tfw.Hash), whatever the cluster list and the plan stored before.
C12_DestroyPlanShape ==
    BuildPlanCalled /\ destroy /\ allowed = {} /\ WorkspaceReady(ws[""]) =>
        currentPlans =
            [ok |-> TRUE,
             pl |-> <<[Type |-> "Destroy", Cluster |-> "",
                       Hash |-> hash(<<ws[""].Hash>>, FALSE),
                       Budget |-> NoBudget]>>]

C12_Witness ==
    /\ BuildPlanCalled /\ destroy /\ allowed = {} /\ WorkspaceReady(ws[""])
    /\ Len(cspec) = 2
    /\ changes > 0
    /\ <<"Infra", "">> \in DOMAIN status
    /\ <<"AKSPool", "k2">> \in DOMAIN status
    /\ ret.step.Type = "Destroy"
    /\ Len(currentPlans.pl) = 1

ReadyInStatus(st) ==
    /\ ShortName(st) \in DOMAIN status
    /\ status[ShortName(st)].State = "Ready"

\* C13: a step whose status entry is Ready is returned only if its hash in
\* the plan differs from the hash in its status entry; when every step of the
\* plan is Ready with matching hash, NextStep returns no step, and no error
\* either unless secret resolution failed.
C13_ReadyStable ==
    ret.called =>
        /\ (ret.step # NilStep /\ ReadyInStatus(ret.step)
                => status[ShortName(ret.step)].Hash # ret.step.Hash)
        /\ (/\ currentPlans.ok
            /\ \A i \in 1..Len(currentPlans.pl) :
                   UpToDate(currentPlans.pl[i]) /\ ReadyInStatus(currentPlans.pl[i])
            => ret.step = NilStep /\ (ret.err <=> ret.via = "vault"))

C13_Witness ==
    /\ ret.called /\ ret.step # NilStep /\ ReadyInStatus(ret.step)
    /\ ret.step.Type = "AKSPool"
    /\ status[ShortName(ret.step)].Hash # ret.step.Hash
    /\ ReadyInStatus(currentPlans.pl[1]) /\ UpToDate(currentPlans.pl[1])
    /\ \A n \in DOMAIN status : status[n].State = "Ready"
    /\ Cardinality(DOMAIN status) = Len(currentPlans.pl)

\* The status once every step of plan pl has run to Ready.
IsAllReady(pl) ==
    /\ DOMAIN status = {ShortName(pl[j]) : j \in 1..Len(pl)}
    /\ \A j \in 1..Len(pl) :
          status[ShortName(pl[j])] = [Hash |-> pl[j].Hash, State |-> "Ready"]

\* C14: for every cluster and every other value its addon inputs had before
\* (workspaces, infra spec and every c.Infra the same), the create plans
\* before and after differ in the hash of that cluster's Addons step only;
\* and when all steps of the plan before are Ready, NextStep returns that
\* Addons step of the plan after, never an AKSPool step.
C14_AddonDecoupling ==
    \A i \in 1..Len(cspec) : \A r \in AddonValues \ {cspec[i].Addons} :
        LET before == [cspec EXCEPT ![i].Addons = r]
            p1 == buildCreatePlan(ws, ispec, before)
            p2 == buildCreatePlan(ws, ispec, cspec)
            f1 == planFilter(p1.pl, allowed)
            f2 == planFilter(p2.pl, allowed)
            addons == <<"Addons", cspec[i].Name>> IN
        /\ p1.ok = p2.ok
        /\ p1.ok =>
              /\ Len(p1.pl) = Len(p2.pl)
              /\ \A j \in 1..Len(p1.pl) :
                    /\ ShortName(p1.pl[j]) = ShortName(p2.pl[j])
                    /\ p1.pl[j].Hash # p2.pl[j].Hash <=> ShortName(p1.pl[j]) = addons
        /\ ret.called /\ ret.via # "vault" /\ ~destroy /\ p1.ok /\ IsAllReady(f1) =>
              /\ ret.step = currentPlanStep([ok |-> TRUE, pl |-> f2], addons)
              /\ ret.step.Type = "Addons"

C14_Witness ==
    /\ ret.called /\ ~destroy /\ allowed = {}
    /\ Len(cspec) = 2 /\ cspec[2].Addons = 2 /\ changes = 1
    /\ Cardinality(DOMAIN status) = 9
    /\ \A n \in DOMAIN status : status[n].State = "Ready"
    /\ ret.step.Type = "Addons" /\ ret.step.Cluster = cspec[2].Name
    /\ status[<<"Addons", cspec[2].Name>>].Hash # ret.step.Hash
    /\ status[<<"AKSPool", cspec[2].Name>>].Hash
           = currentPlanStep(currentPlans, <<"AKSPool", cspec[2].Name>>).Hash

\* C16: a step whose hash is the sentinel "hasherror" is never returned by
\* the plan walk, whatever its status entry (the step a Running entry names
\* is left aside).
C16_HashErrorSkipped ==
    ret.called /\ ret.via = "select" /\ ret.step # NilStep =>
        ret.step.Hash # HashError

RunningNames == stepFilter(status, StateRunning)

\* The step of the plan in memory before the call that carries short name n.
InMemory(n) == currentPlanStep(currentPlans, n)

\* The step of the plan in memory after the call that carries short name n.
Fresh(n) == currentPlanStep(currentPlans', n)

\* What C17 says about one NextStep call made with no status entry in Error,
\* for the Running entries in names.
FastPath(names) ==
    /\ (\E n \in names : InMemory(n) # NilStep) =>
          /\ ret'.via = "running"
          /\ \E n \in names : InMemory(n) # NilStep /\ ret'.step = InMemory(n)
          /\ ~ret'.err
          /\ currentPlans' = currentPlans
    /\ (/\ names # {}
        /\ \A n \in names : InMemory(n) = NilStep
        /\ ret'.via \notin {"vault", "notready"}
        /\ \E n \in names : Fresh(n) # NilStep) =>
          /\ ret'.via = "rebuilt"
          /\ \E n \in names : Fresh(n) # NilStep /\ ret'.step = Fresh(n)

\* C17: with no entry in Error, if some status entry is Running and the plan
\* in memory holds a step of that short name, NextStep returns that step
\* without resolving secrets and without rebuilding; without a match in
\* memory the plan is rebuilt and the step of that short name in the fresh
\* plan is returned, whatever its hash.
C17_RunningFastPath ==
    [][ret'.called /\ ~HasState("Error") => FastPath(RunningNames)]_vars

\* C17 for calls made with exactly one Running entry in the status.
C17_SingleRunning ==
    [][ret'.called /\ ~HasState("Error") /\ Cardinality(RunningNames) = 1
          => FastPath(RunningNames)]_vars

\* C21: a NextStep call whose buildPlan returned false, for either
\* environment, leaves the plan stored for its NSN and the plan stored for the
\* other NSN as they were.
C21_FailedRebuildKeepsPlans ==
    [][/\ (ret'.called /\ ret'.via = "notready"
             => currentPlans' = currentPlans /\ otherPlans' = otherPlans)
       /\ (other'.via = "notready"
             => currentPlans' = currentPlans /\ otherPlans' = otherPlans)]_vars

\* The Running step of the plan built before the workspace went away is
\* returned from memory.
EarlierPlanStepReturned ==
    /\ ret.called /\ ret.via = "running"
    /\ ~WorkspaceReady(ws[""])
    /\ ret.step = currentPlans.pl[1]
    /\ ReturnedRunning

\* A rebuild just failed while the first step of the earlier plan is handed
\* out but not yet Running: both stored plans are still there.
C21_Witness ==
    /\ ret.called /\ ret.via = "notready"
    /\ ~WorkspaceReady(ws[""])
    /\ currentPlans.ok /\ Len(currentPlans.pl) = 5
    /\ otherPlans.ok /\ Len(otherPlans.pl) = 5
    /\ pc = "begin" /\ cur = currentPlans.pl[1]

----------------------------------------------------------------------------
(* Properties of Execute *)

Finished == result # "none"

LastUpdate == updates[Len(updates)]

\* C5: once Execute is over, its updates are one or more Running updates
\* followed by exactly one update in Ready or Error, which is the last.
C5_UpdateProtocol ==
    Finished =>
        /\ Len(updates) >= 2
        /\ \A i \in 1..(Len(updates) - 1) : updates[i].State = "Running"
        /\ LastUpdate.State \in {"Ready", "Error"}

Within(limit, n) == limit = -1 \/ n <= limit

WithinBudget ==
    /\ Within(cur.Budget.AddLimit, tfr.PlanAdded)
    /\ Within(cur.Budget.UpdateLimit, tfr.PlanChanged)
    /\ Within(cur.Budget.DeleteLimit, tfr.PlanDeleted)

PlanSum == tfr.PlanAdded + tfr.PlanChanged + tfr.PlanDeleted

\* The apply ran and its last record carries no errors.
ApplySucceeded ==
    /\ \E i \in 1..Len(trace) : trace[i] = "StartApply"
    /\ ~last.nil /\ last.Errors = <<>>

ReachedReady == result = "true" /\ LastUpdate.State = "Ready"

\* C6 as claimed: the Infra step reaches Ready iff the plan is non-empty,
\* within every limit, and the apply succeeded.
C6_BudgetOutcome ==
    Finished /\ cur.Type = "Infra" /\ tfr.ran =>
        (ReachedReady <=> PlanSum > 0 /\ WithinBudget /\ ApplySucceeded)

\* C6 amended: the Infra step reaches Ready iff the plan is empty (nothing
\* to do), or the plan is within every limit and the apply succeeded.
C6_BudgetOutcomeOrNothingToDo ==
    Finished /\ cur.Type = "Infra" /\ tfr.ran =>
        (ReachedReady <=> PlanSum = 0 \/ (WithinBudget /\ ApplySucceeded))

C6_Witness ==
    /\ Finished /\ cur.Type = "Infra" /\ tfr.ran /\ ReachedReady
    /\ PlanSum > 0
    /\ cur.Budget.AddLimit = tfr.PlanAdded
    /\ cur.Budget.DeleteLimit = tfr.PlanDeleted
    /\ cur.Budget.UpdateLimit = -1

BudgetMessages ==
    (IF Within(cur.Budget.AddLimit, tfr.PlanAdded) THEN {}
     ELSE {<<"plan added", tfr.PlanAdded, "exceeds addLimit", cur.Budget.AddLimit>>})
    \cup
    (IF Within(cur.Budget.UpdateLimit, tfr.PlanChanged) THEN {}
     ELSE {<<"plan changed", tfr.PlanChanged, "exceeds updateLimit", cur.Budget.UpdateLimit>>})
    \cup
    (IF Within(cur.Budget.DeleteLimit, tfr.PlanDeleted) THEN {}
     ELSE {<<"plan deleted", tfr.PlanDeleted, "exceeds deleteLimit", cur.Budget.DeleteLimit>>})

\* C7: when a plan count exceeds its limit, Execute ends in Error with the
\* message of an exceeded limit, returns false and never starts the apply.
C7_BudgetGate ==
    cur.Type = "Infra" /\ tfr.ran /\ ~WithinBudget =>
        /\ result = "false"
        /\ LastUpdate.State = "Error"
        /\ LastUpdate.Msg \in BudgetMessages
        /\ \A i \in 1..Len(trace) : trace[i] # "StartApply"

C7_Witness ==
    /\ cur.Type = "Infra" /\ tfr.ran /\ result = "false"
    /\ cur.Budget.AddLimit = 0 /\ tfr.PlanAdded = 1
    /\ cur.Budget.DeleteLimit = 0 /\ tfr.PlanDeleted = 1
    /\ LastUpdate.Msg = <<"plan added", 1, "exceeds addLimit", 0>>

\* C8: when the progress channel closes without a record, Execute publishes
\* a terminal Error "did not receive response from terraform apply" (or
\* destroy) and returns false.
C8_NoProgressError ==
    Finished /\ last.nil /\ (\E i \in 1..Len(trace) : trace[i] = "closed") =>
        /\ result = "false"
        /\ LastUpdate.State = "Error"
        /\ LastUpdate.Msg = <<"did not receive response from terraform",
                              IF cur.Type = "Infra" THEN "apply" ELSE "destroy">>

NoApply == \A i \in 1..Len(trace) : trace[i] # "StartApply"

\* C15: when init and plan return no errors and the plan reports no added,
\* changed or deleted object, Execute publishes Running updates and then Ready
\* with "terraform plan: nothing to do", returns true and never starts the
\* apply, whatever the budget.
C15_NothingToDo ==
    cur.Type = "Infra" /\ tfr.ran /\ PlanSum = 0 =>
        /\ result = "true"
        /\ LastUpdate = [State |-> "Ready", Msg |-> <<"terraform plan: nothing to do">>]
        /\ \A i \in 1..(Len(updates) - 1) : updates[i].State = "Running"
        /\ Len(updates) >= 2
        /\ NoApply

C15_Witness ==
    /\ cur.Type = "Infra" /\ tfr.ran /\ PlanSum = 0
    /\ result = "true" /\ NoApply
    /\ cur.Budget = [AddLimit |-> 0, UpdateLimit |-> 0, DeleteLimit |-> 0]

\* The engine operations the current execution invoked, in order.
EngineCalls ==
    SelectSeq(trace, LAMBDA x : x \in {"Init", "Plan", "StartApply"})

IsPrefix(s, t) == Len(s) <= Len(t) /\ \A i \in 1..Len(s) : s[i] = t[i]

\* C18: InfraStep.Execute invokes Init, Plan, StartApply in that order, each
\* at most once; Plan only after Init returned no errors and StartApply only
\* after Plan returned no errors; a non-empty error list of Init (Plan) ends
\* the step in Error with "terraform init " ("terraform plan ") followed by
\* the first error only, returning false, with no further engine call.
C18_PhaseGating ==
    /\ [](cur.Type = "Infra" =>
            /\ IsPrefix(EngineCalls, <<"Init", "Plan", "StartApply">>)
            /\ (Len(tfr.Errors) > 0 =>
                  /\ result = "false"
                  /\ LastUpdate.State = "Error"
                  /\ LastUpdate.Msg =
                        <<IF tfr.op = "Init" THEN "terraform init "
                          ELSE "terraform plan ", tfr.Errors[1]>>
                  /\ EngineCalls[Len(EngineCalls)] = tfr.op))
    /\ [][cur.Type = "Infra" =>
            /\ (trace' = Append(trace, "Plan")
                   => tfr.op = "Init" /\ tfr.Errors = <<>>)
            /\ (trace' = Append(trace, "StartApply")
                   => tfr.op = "Plan" /\ tfr.Errors = <<>>)]_vars

C18_Witness ==
    /\ cur.Type = "Infra" /\ result = "false"
    /\ tfr.op = "Plan" /\ tfr.Errors = <<"e2", "e1">>
    /\ EngineCalls = <<"Init", "Plan">>
    /\ LastUpdate.Msg = <<"terraform plan ", "e2">>

Count(x) == Cardinality({i \in 1..Len(trace) : trace[i] = x})

Before(x, y) ==
    \A i, j \in 1..Len(trace) : trace[i] = x /\ trace[j] = y => i < j

\* C19: cmd.Wait is invoked at most once, never when cmd is nil, and only
\* after the progress channel was closed and every record on it was received;
\* an execution that drained the channel of a real command publishes its
\* terminal update only after cmd.Wait.
C19_DrainBeforeReap ==
    /\ Count("Wait") <= 1
    /\ cmd = "nil" => Count("Wait") = 0
    /\ Count("Wait") = 1 =>
          /\ ch = <<>>
          /\ Count("closed") = 1
          /\ Before("closed", "Wait")
          /\ Before("Record", "closed") /\ Before("RecordErr", "closed")
    /\ result \in {"true", "false"} /\ Count("closed") = 1 /\ cmd # "nil" =>
          Count("Wait") = 1

C19_Witness ==
    /\ cur.Type = "Destroy" /\ cmd # "nil"
    /\ Count("Wait") = 1
    /\ Count("Record") + Count("RecordErr") = 2
    /\ result = "true"

\* The records the current execution received, in order: with or without errors.
Received == SelectSeq(trace, LAMBDA x : x \in {"Record", "RecordErr"})

\* C20: when at least one record was delivered, the terminal state follows
\* the last record received alone: Error with the comma-joined errors when it
\* carries errors, Ready otherwise, whatever earlier records carried and
\* whatever cmd.Wait returned; Execute returns true exactly when it is Ready.
C20_LastRecordAuthoritative ==
    Finished /\ Len(Received) > 0 /\ Count("closed") = 1 =>
        /\ result \in {"true", "false"}
        /\ result = "true" <=> LastUpdate.State = "Ready"
        /\ IF Received[Len(Received)] = "RecordErr"
           THEN /\ LastUpdate.State = "Error"
                /\ Len(last.Errors) > 0
                /\ LastUpdate.Msg = Join(last.Errors)
           ELSE LastUpdate.State = "Ready"

C20_Witness ==
    /\ Finished /\ cur.Type = "Infra"
    /\ Received = <<"RecordErr", "Record">>
    /\ Count("WaitErr") = 1
    /\ result = "true" /\ LastUpdate.State = "Ready"


\* An AKSPool step of this environment is handed to the worker and its
\* Execute has not finished.
AKSPoolPending == cur.Type = TypeAKSPool /\ pc \in {"begin", "other"}

\* C22: from the moment an AKSPool step built for this environment is handed
\* out until its Execute finishes, the Azure client it carries holds this
\* environment's subscription, whatever NextStep calls are made for the other
\* environment in between.
C22_ClientIsolation ==
    AKSPoolPending => azure = ispec.Subscription

\* The AKSPool step is about to call the client while the client holds its
\* own environment's subscription.
C22_OwnSubscription ==
    /\ AKSPoolPending /\ pc = "other"
    /\ azure = ispec.Subscription
    /\ otherPlans.ok
====
